---------------------------- MODULE Spec2Model ----------------------------
(***************************************************************************)
(* A model of sygnal/__init__.py: the push gateway's startup (setup), its  *)
(* request path (RequestCounter.get, notify) and its shutdown.             *)
(***************************************************************************)
EXTENDS Integers, Sequences, FiniteSets, TLC

(***************************************************************************)
(* Bounds of the model.                                                    *)
(***************************************************************************)
\* Number of request-handling threads; each serves one request.
NumThreads == 2
\* Longest 'devices' list of a request body.
MaxDevices == 2
\* Longest [apps] section of sygnal.conf.
MaxCfg == 2

Threads == 1..NumThreads

\* Application identifiers that configuration and devices may name.
AppIds == {"a", "b"}
\* Device tokens.
Pushkeys == {"k1", "k2"}
\* Marks a key that a raw JSON object does not hold.
Absent == "_absent_"

(***************************************************************************)
(* State.                                                                  *)
(***************************************************************************)
VARIABLES
    phase,          \* where the process is: loading, setup, serving, fatal, shutdown, stopped, shutdown_raised
    cfgItems,       \* the items of cfg.items('apps') the loading loop has still to visit
    configured,     \* app ids whose '<app>.type' entry the loading loop has visited
    pushkins,       \* the registry: app id -> backend instance [name, kind]
    setupCalls,     \* app id -> number of times that backend's setup was invoked
    shutdownCalls,  \* app id -> number of times that backend's shutdown was invoked
    count,          \* RequestCounter._count
    lock,           \* RequestCounter._lock: 0 when free, else the thread holding it
    handed,         \* the values read from _count, in the order the lock was taken
    req,            \* per thread: the request it is handling
    NOTIFS_RECEIVED_COUNTER,
    NOTIFS_RECEIVED_DEVICE_PUSH_COUNTER,
    NOTIFS_BY_PUSHKIN,   \* pushkin name -> count
    dispatchCalls        \* pushkin name -> number of dispatchNotification invocations

vars == <<phase, cfgItems, configured, pushkins, setupCalls, shutdownCalls,
          count, lock, handed, req, NOTIFS_RECEIVED_COUNTER,
          NOTIFS_RECEIVED_DEVICE_PUSH_COUNTER, NOTIFS_BY_PUSHKIN, dispatchCalls>>

startupVars == <<cfgItems, configured, pushkins, setupCalls>>
counterVars == <<count, lock, handed>>
metricVars == <<NOTIFS_RECEIVED_COUNTER, NOTIFS_RECEIVED_DEVICE_PUSH_COUNTER,
                NOTIFS_BY_PUSHKIN, dispatchCalls>>

(***************************************************************************)
(* Configuration: the [apps] section as cfg.items('apps') yields it.  A    *)
(* key is modelled by the parts key.rsplit('.', 1) gives.                  *)
(***************************************************************************)
\* Backend kinds a '<app>.type' entry may name: "gcm" resolves to a backend
\* that overrides dispatchNotification, "base" to one that inherits
\* Pushkin's, "nosuch" to no module.
Kinds == {"gcm", "base", "nosuch"}

CfgEntries ==
    { [parts |-> <<a, "type">>, val |-> k] : a \in AppIds, k \in Kinds }
    \cup { [parts |-> <<"a", "sound">>, val |-> "x"],
           [parts |-> <<"port">>, val |-> "5000"] }

\* Sequences of at most n entries.
SeqsUpTo(S, n) == UNION { [1..m -> S] : m \in 0..n }

\* A configuration file holds each key once.
Configs ==
    { s \in SeqsUpTo(CfgEntries, MaxCfg) :
        \A i, j \in 1..Len(s) : i # j => s[i].parts # s[j].parts }

\* The configurations of the concurrent specification: app "a" alone, or
\* "a" and a "b" whose backend inherits Pushkin.dispatchNotification.
ConcConfigs ==
    { << [parts |-> <<"a", "type">>, val |-> "gcm"] >>,
      << [parts |-> <<"a", "type">>, val |-> "gcm"],
         [parts |-> <<"b", "type">>, val |-> "base"] >> }


(***************************************************************************)
(* make_pushkin: resolves the kind to a module and a class and constructs  *)
(* the backend with the app id as its name.  __import__ or getattr raises  *)
(* for a kind that names no backend module.                                *)
(***************************************************************************)
MakePushkinRaises(kind) == kind \notin {"gcm", "base"}

make_pushkin(kind, name) == [name |-> name, kind |-> kind]

\* pushkins[key] = value
DictSet(d, key, value) ==
    [x \in DOMAIN d \cup {key} |-> IF x = key THEN value ELSE d[x]]

EmptyDict == [x \in {} |-> 0]

\* Faulty variant of AfterMakePushkinFailure: the except clause logs and
\* the loop goes on to the next entry.
AfterMakePushkinFailureSwallowed == "loading"

\* The phase setup() is left in when make_pushkin raises: the except clause
\* logs and re-raises, so setup() and the module import fail.
AfterMakePushkinFailure == "fatal"

\* 'if len(pushkins) == 0': sys.exit(1)
NoAppIdsConfigured(pk) == DOMAIN pk = {}

InitWith(configs) ==
    /\ phase = "loading"
    /\ cfgItems \in configs
    /\ configured = {}
    /\ pushkins = EmptyDict
    /\ setupCalls = [a \in AppIds |-> 0]
    /\ shutdownCalls = [a \in AppIds |-> 0]
    /\ count = 0
    /\ lock = 0
    /\ handed = <<>>
    /\ req = [t \in Threads |->
                [pc |-> "idle", c |-> 0, request_id |-> 0,
                 body |-> [shape |-> "none", devs |-> <<>>],
                 idx |-> 0, rej |-> <<>>, status |-> 0,
                 hasRejected |-> FALSE, rejected |-> <<>>, trace |-> <<>>]]
    /\ NOTIFS_RECEIVED_COUNTER = 0
    /\ NOTIFS_RECEIVED_DEVICE_PUSH_COUNTER = 0
    /\ NOTIFS_BY_PUSHKIN = [a \in AppIds |-> 0]
    /\ dispatchCalls = [a \in AppIds |-> 0]

Init == InitWith(Configs)

InitConc == InitWith(ConcConfigs)

(***************************************************************************)
(* setup(): one iteration of 'for key,val in cfg.items("apps")'.           *)
(***************************************************************************)
LoadEntry ==
    /\ phase = "loading"
    /\ cfgItems # <<>>
    /\ LET e == Head(cfgItems)
           parts == e.parts
       IN  /\ cfgItems' = Tail(cfgItems)
           /\ IF Len(parts) < 2
                THEN UNCHANGED <<phase, configured, pushkins>>
              ELSE IF parts[2] # "type"
                THEN UNCHANGED <<phase, configured, pushkins>>
              ELSE /\ configured' = configured \cup {parts[1]}
                   /\ IF MakePushkinRaises(e.val)
                        THEN /\ phase' = AfterMakePushkinFailure
                             /\ UNCHANGED pushkins
                        ELSE /\ pushkins' = DictSet(pushkins, parts[1],
                                                    make_pushkin(e.val, parts[1]))
                             /\ UNCHANGED phase
    /\ UNCHANGED <<setupCalls, shutdownCalls, req>>
    /\ UNCHANGED counterVars
    /\ UNCHANGED metricVars

\* setup(): the loop is over; 'if len(pushkins) == 0: sys.exit(1)'.
CheckConfigured ==
    /\ phase = "loading"
    /\ cfgItems = <<>>
    /\ phase' = IF NoAppIdsConfigured(pushkins) THEN "fatal" ELSE "setup"
    /\ UNCHANGED <<shutdownCalls, req>>
    /\ UNCHANGED startupVars
    /\ UNCHANGED counterVars
    /\ UNCHANGED metricVars

\* Faulty variant of InSetupLoop: each backend is set up as soon as it is
\* constructed, while later entries are still to be loaded.
InSetupLoopEarly == phase \in {"loading", "setup"}

\* 'for p in pushkins' comes after the loading loop and the check of
\* len(pushkins).
InSetupLoop == phase = "setup"

\* setup(): one iteration of 'for p in pushkins': pushkins[p].setup(ctx),
\* which returns or raises; a raise leaves setup().
SetupBackend ==
    /\ InSetupLoop
    /\ \E p \in DOMAIN pushkins :
         /\ setupCalls[p] = 0
         /\ setupCalls' = [setupCalls EXCEPT ![p] = @ + 1]
         /\ \E raises \in BOOLEAN :
              phase' = IF raises THEN "fatal" ELSE phase
    /\ UNCHANGED <<cfgItems, configured, pushkins, shutdownCalls, req>>
    /\ UNCHANGED counterVars
    /\ UNCHANGED metricVars

\* setup() returns ("Setup completed"): the module is imported and the
\* application can be served.
SetupCompleted ==
    /\ phase = "setup"
    /\ \A p \in DOMAIN pushkins : setupCalls[p] > 0
    /\ phase' = "serving"
    /\ UNCHANGED <<shutdownCalls, req>>
    /\ UNCHANGED startupVars
    /\ UNCHANGED counterVars
    /\ UNCHANGED metricVars

(***************************************************************************)
(* Request bodies.  shape tells how far the body parses: not JSON, no      *)
(* object under 'notification', no 'devices' key, 'devices' not a list, or *)
(* a list of raw devices, each holding or lacking app_id and pushkey.      *)
(***************************************************************************)
RawDevices == [app_id : AppIds \cup {Absent}, pushkey : Pushkeys \cup {Absent}]

Bodies ==
    { [shape |-> s, devs |-> <<>>] :
        s \in {"badjson", "nonotification", "nodevices", "notlist"} }
    \cup { [shape |-> "list", devs |-> d] : d \in SeqsUpTo(RawDevices, MaxDevices) }

\* The bodies of the concurrent specification: lists of at most two valid
\* devices of distinct app ids, the device at position i carrying the i-th
\* pushkey.
ConcKeys == <<"k1", "k2">>

ConcBodies ==
    { [shape |-> "list", devs |-> d] :
        d \in { s \in SeqsUpTo(RawDevices, 2) :
                  /\ \A i \in 1..Len(s) :
                       s[i].app_id # Absent /\ s[i].pushkey = ConcKeys[i]
                  /\ \A i, j \in 1..Len(s) :
                       i # j => s[i].app_id # s[j].app_id } }

\* Device.__init__ raises InvalidNotificationException.
DeviceRaises(raw) == raw.app_id = Absent \/ raw.pushkey = Absent

\* Device.__init__: the fields dispatch reads.
Device(raw) == [app_id |-> raw.app_id, pushkey |-> raw.pushkey]

\* Faulty variant of NotificationRaises: the devices are validated lazily,
\* so only the first one is checked before the dispatch loop starts.
NotificationRaisesLazy(body) ==
    \/ body.shape \in {"nodevices", "notlist"}
    \/ Len(body.devs) > 0 /\ DeviceRaises(body.devs[1])

\* Notification.__init__ raises: 'devices' missing or no list, or the
\* comprehension [Device(d) for d in notif['devices']] raises at some device.
NotificationRaises(body) ==
    \/ body.shape \in {"nodevices", "notlist"}
    \/ \E i \in 1..Len(body.devs) : DeviceRaises(body.devs[i])

\* Notification.__init__: self.devices
NotificationDevices(body) == [i \in 1..Len(body.devs) |-> Device(body.devs[i])]

\* notify, up to the metrics: TRUE when the request ends there (ClientError,
\* or one of the three flask.abort(400, ...)).
AbortedEarly(body) ==
    \/ body.shape = "badjson"
    \/ body.shape = "nonotification"
    \/ NotificationRaises(body)
    \/ Len(body.devs) = 0

\* InvalidNotificationException (sygnal.exceptions) gives the handler its
\* text as e.message.
ExceptionHasMessage == TRUE

\* The status of a request that ends early.  'flask.abort(400, e.message)'
\* reads e.message before it aborts; were the attribute missing, the
\* AttributeError would end the request with 500.
AbortStatus(body) ==
    IF /\ body.shape \notin {"badjson", "nonotification"}
       /\ NotificationRaises(body)
       /\ ~ExceptionHasMessage
      THEN 500
      ELSE 400

(***************************************************************************)
(* Backends.                                                               *)
(***************************************************************************)
\* The subsequences of s.
SubSeqs(s) ==
    { LET f[i \in 0..Len(s)] ==
            IF i = 0 THEN <<>>
            ELSE IF i \in m THEN Append(f[i-1], s[i]) ELSE f[i-1]
      IN  f[Len(s)] : m \in SUBSET (1..Len(s)) }

\* The pushkeys of the notification's devices that belong to app id 'name'.
OwnKeys(name, devs) ==
    LET own == SelectSeq(devs, LAMBDA d : d.app_id = name)
    IN  [i \in 1..Len(own) |-> own[i].pushkey]

\* Pushkin.dispatchNotification: 'pass', so the call returns None.
BaseDispatch == { [kind |-> "none", keys |-> <<>>] }

\* A delivery backend's dispatchNotification: raises on a backend-level
\* error, else returns the pushkeys it rejects among the notification's
\* devices of its own app id.
BackendDispatch(name, devs) ==
    { [kind |-> "raise", keys |-> <<>>] }
    \cup { [kind |-> "list", keys |-> k] : k \in SubSeqs(OwnKeys(name, devs)) }

DispatchOutcomes(pushkin, devs) ==
    IF pushkin.kind = "base" THEN BaseDispatch
    ELSE BackendDispatch(pushkin.name, devs)

(***************************************************************************)
(* RequestCounter.get, step by step: with self._lock / c = self._count /   *)
(* self._count = c + 1 / leave the with block, return c.                   *)
(***************************************************************************)
\* Faulty variant of LockAvailable: get takes no lock.
LockNeverHeld(l) == TRUE

\* threading.Lock: acquire blocks while another thread holds the lock.
LockAvailable(l) == l = 0

\* Faulty variant of AcceptsRequests: the application is served while
\* setup() is still in its setup loop.
AcceptsRequestsEarly == phase \in {"setup", "serving"}

\* The module calls setup() in its last statement, so the import that gives
\* a server the application returns only after setup() has returned.
AcceptsRequests == phase = "serving"

Acquire(t) ==
    /\ AcceptsRequests
    /\ req[t].pc = "idle"
    /\ LockAvailable(lock)
    /\ lock' = t
    /\ req' = [req EXCEPT ![t].pc = "get_read"]
    /\ UNCHANGED <<phase, shutdownCalls, count, handed>>
    /\ UNCHANGED startupVars
    /\ UNCHANGED metricVars

ReadCount(t) ==
    /\ req[t].pc = "get_read"
    /\ req' = [req EXCEPT ![t].pc = "get_write", ![t].c = count]
    /\ handed' = Append(handed, count)
    /\ UNCHANGED <<phase, shutdownCalls, count, lock>>
    /\ UNCHANGED startupVars
    /\ UNCHANGED metricVars

\* Faulty variant of NextCount: the value read is stored back unchanged.
NextCountStale(c) == c

\* c + 1
NextCount(c) == c + 1

WriteCount(t) ==
    /\ req[t].pc = "get_write"
    /\ count' = NextCount(req[t].c)
    /\ req' = [req EXCEPT ![t].pc = "get_release"]
    /\ UNCHANGED <<phase, shutdownCalls, lock, handed>>
    /\ UNCHANGED startupVars
    /\ UNCHANGED metricVars

\* Leaves the with block and returns c, which log_request puts in
\* flask.g.request_id.
Release(t) ==
    /\ req[t].pc = "get_release"
    /\ lock' = 0
    /\ req' = [req EXCEPT ![t].pc = "notify", ![t].request_id = req[t].c]
    /\ UNCHANGED <<phase, shutdownCalls, count, handed>>
    /\ UNCHANGED startupVars
    /\ UNCHANGED metricVars

(***************************************************************************)
(* notify.                                                                 *)
(***************************************************************************)
\* 'if appid not in pushkins', negated.
IsRegistered(appid) == appid \in DOMAIN pushkins

\* Faulty variants of RejectUnknown: the pushkey is not recorded; it is put
\* in front; the app id is recorded in its place.
RejectUnknownDropped(rej, d) == rej
RejectUnknownFront(rej, d) == <<d.pushkey>> \o rej
RejectUnknownAppId(rej, d) == Append(rej, d.app_id)

\* rej.append(d.pushkey)
RejectUnknown(rej, d) == Append(rej, d.pushkey)

\* Faulty variants of ExtendRejected: the backend's list goes in front; the
\* list is appended as one element (append for extend).
ExtendRejectedFront(rej, keys) == keys \o rej
ExtendRejectedAppend(rej, keys) == Append(rej, keys)

\* rej.extend(<the list dispatchNotification returned>)
ExtendRejected(rej, keys) == rej \o keys

\* Faulty variant of DispatchFails: extending the list with None adds
\* nothing and does not raise.
DispatchFailsOnRaiseOnly(r) == r.kind = "raise"

\* The guarded statement raises: dispatchNotification itself, or rej.extend
\* when the call returned None.
DispatchFails(r) == r.kind = "raise" \/ r.kind = "none"

\* Faulty variant of OnDispatchFailure: the except clause logs and the loop
\* goes on.
OnDispatchFailureSwallowed(r) == [r EXCEPT !.idx = @ + 1]

\* Faulty variant of OnDispatchFailure: the except clause leaves the loop
\* on the same device, so the failed call is made again.
OnDispatchFailureRetried(r) == r

\* The except clause: logs and flask.abort(500, ...), which ends the request.
OnDispatchFailure(r) == [r EXCEPT !.pc = "done", !.status = 500]

\* Faulty variant of NewRej: the list is shared by the requests, so a
\* request goes on from what the request of another thread has collected.
NewRejShared(t) == req[IF t = 1 THEN NumThreads ELSE t - 1].rej

\* 'rej = []': a list local to the call of notify.
NewRej(t) == <<>>

\* notify from its first line to 'rej = []': parse and validate the body,
\* answer 400 or count the notification and enter the device loop.
Notify(t, bodies) ==
    /\ req[t].pc = "notify"
    /\ \E body \in bodies :
         IF AbortedEarly(body)
           THEN /\ req' = [req EXCEPT ![t].pc = "done", ![t].body = body,
                                      ![t].status = AbortStatus(body)]
                /\ UNCHANGED NOTIFS_RECEIVED_COUNTER
           ELSE /\ req' = [req EXCEPT ![t].pc = "loop",
                                      ![t].body = [body EXCEPT !.devs = NotificationDevices(body)],
                                      ![t].idx = 1, ![t].rej = NewRej(t)]
                /\ NOTIFS_RECEIVED_COUNTER' = NOTIFS_RECEIVED_COUNTER + 1
    /\ UNCHANGED <<phase, shutdownCalls, NOTIFS_RECEIVED_DEVICE_PUSH_COUNTER,
                   NOTIFS_BY_PUSHKIN, dispatchCalls>>
    /\ UNCHANGED startupVars
    /\ UNCHANGED counterVars

\* Faulty variant of PushCounted: the counter is incremented after the
\* guarded call, so a call that fails is not counted.
PushCountedOnSuccess(res) == ~DispatchFails(res)

\* NOTIFS_BY_PUSHKIN.labels(pushkin.name).inc() stands before the try: the
\* call is counted whatever its outcome res.
PushCounted(res) == TRUE

\* The argument of pushkin.dispatchNotification(notif) while the loop is at
\* device idx: the notification with all its devices.
DispatchArgument(devs, idx) == devs

\* One iteration of 'for d in notif.devices'.
ProcessDevice(t) ==
    /\ req[t].pc = "loop"
    /\ req[t].idx <= Len(req[t].body.devs)
    /\ NOTIFS_RECEIVED_DEVICE_PUSH_COUNTER' = NOTIFS_RECEIVED_DEVICE_PUSH_COUNTER + 1
    /\ LET r == req[t]
           d == r.body.devs[r.idx]
           appid == d.app_id
       IN  IF ~IsRegistered(appid)
             THEN /\ req' = [req EXCEPT
                               ![t].rej = RejectUnknown(r.rej, d),
                               ![t].idx = r.idx + 1,
                               ![t].trace = Append(r.trace,
                                   [idx |-> r.idx, app |-> appid, registered |-> FALSE,
                                    arg |-> <<>>,
                                    res |-> [kind |-> "unknown", keys |-> <<>>]])]
                  /\ UNCHANGED <<NOTIFS_BY_PUSHKIN, dispatchCalls>>
             ELSE LET pushkin == pushkins[appid]
                  IN  /\ dispatchCalls' = [dispatchCalls EXCEPT ![pushkin.name] = @ + 1]
                      /\ \E res \in DispatchOutcomes(pushkin, DispatchArgument(r.body.devs, r.idx)) :
                           /\ NOTIFS_BY_PUSHKIN' =
                                 [NOTIFS_BY_PUSHKIN EXCEPT ![pushkin.name] =
                                     IF PushCounted(res) THEN @ + 1 ELSE @]
                           /\ LET called == [r EXCEPT !.trace = Append(r.trace,
                                                [idx |-> r.idx, app |-> appid,
                                                 registered |-> TRUE,
                                                 arg |-> DispatchArgument(r.body.devs, r.idx),
                                                 res |-> res])]
                              IN  req' = [req EXCEPT ![t] =
                                            IF DispatchFails(res)
                                              THEN OnDispatchFailure(called)
                                              ELSE [called EXCEPT
                                                      !.rej = ExtendRejected(r.rej, res.keys),
                                                      !.idx = r.idx + 1]]
    /\ UNCHANGED <<phase, shutdownCalls, NOTIFS_RECEIVED_COUNTER>>
    /\ UNCHANGED startupVars
    /\ UNCHANGED counterVars

\* return flask.jsonify({"rejected": rej})
Respond(t) ==
    /\ req[t].pc = "loop"
    /\ req[t].idx > Len(req[t].body.devs)
    /\ req' = [req EXCEPT ![t].pc = "done", ![t].status = 200,
                          ![t].hasRejected = TRUE, ![t].rejected = req[t].rej]
    /\ UNCHANGED <<phase, shutdownCalls>>
    /\ UNCHANGED startupVars
    /\ UNCHANGED counterVars
    /\ UNCHANGED metricVars

(***************************************************************************)
(* shutdown().  Nothing in the module calls it; the server is taken to     *)
(* call it on exit, when no request is being handled.                      *)
(***************************************************************************)
BeginShutdown ==
    /\ phase = "serving"
    /\ \A t \in Threads : req[t].pc \in {"idle", "done"}
    /\ phase' = "shutdown"
    /\ UNCHANGED <<shutdownCalls, req>>
    /\ UNCHANGED startupVars
    /\ UNCHANGED counterVars
    /\ UNCHANGED metricVars

\* The phase shutdown() is left in when p.shutdown() raises: the loop has no
\* try, so the exception leaves the loop and shutdown().
AfterShutdownFailure == "shutdown_raised"

\* Faulty variant of RegistryAfterShutdown: the backend that was shut down
\* is removed from the registry.
RegistryAfterShutdownPopped(pk, p) == [x \in DOMAIN pk \ {p} |-> pk[x]]

\* shutdown() reads pushkins.values() and assigns nothing to pushkins.
RegistryAfterShutdown(pk, p) == pk

\* One iteration of 'for p in pushkins.values()': p.shutdown(), which
\* returns or raises.
ShutdownBackend ==
    /\ phase = "shutdown"
    /\ \E p \in DOMAIN pushkins :
         /\ shutdownCalls[p] = 0
         /\ shutdownCalls' = [shutdownCalls EXCEPT ![p] = @ + 1]
         /\ pushkins' = RegistryAfterShutdown(pushkins, p)
         /\ \E raises \in BOOLEAN :
              phase' = IF raises THEN AfterShutdownFailure ELSE "shutdown"
    /\ UNCHANGED <<req, cfgItems, configured, setupCalls>>
    /\ UNCHANGED counterVars
    /\ UNCHANGED metricVars

\* "Shutdown complete..."
ShutdownComplete ==
    /\ phase = "shutdown"
    /\ \A p \in DOMAIN pushkins : shutdownCalls[p] > 0
    /\ phase' = "stopped"
    /\ UNCHANGED <<shutdownCalls, req>>
    /\ UNCHANGED startupVars
    /\ UNCHANGED counterVars
    /\ UNCHANGED metricVars

\* setup(), run once when the module is imported.
Startup ==
    \/ LoadEntry
    \/ CheckConfigured
    \/ SetupBackend
    \/ SetupCompleted

\* The request path of the threads 'threads', whose bodies are drawn from
\* 'bodies'.
Serve(threads, bodies) ==
    \/ \E t \in threads : Acquire(t)
    \/ \E t \in threads : ReadCount(t)
    \/ \E t \in threads : WriteCount(t)
    \/ \E t \in threads : Release(t)
    \/ \E t \in threads : Notify(t, bodies)
    \/ \E t \in threads : ProcessDevice(t)
    \/ \E t \in threads : Respond(t)

\* shutdown()
Shutdown ==
    \/ BeginShutdown
    \/ ShutdownBackend
    \/ ShutdownComplete

\* The process from startup to shutdown serving one request: every
\* configuration and every body.
Next == Startup \/ Serve({1}, Bodies) \/ Shutdown

Spec == Init /\ [][Next]_vars

\* The process from startup to shutdown serving concurrent requests, one
\* per thread.
NextConc == Startup \/ Serve(Threads, ConcBodies) \/ Shutdown

SpecConc == InitConc /\ [][NextConc]_vars

(***************************************************************************)
(* Vocabulary of the properties.                                           *)
(***************************************************************************)
Range(s) == { s[i] : i \in 1..Len(s) }

\* The sum of F(t) over the threads.
SumThreads(F(_)) ==
    LET sum[n \in 0..NumThreads] == IF n = 0 THEN 0 ELSE sum[n-1] + F(n)
    IN  sum[NumThreads]

\* The concatenation of the sequences of seqs.
Concat(seqs) ==
    LET cat[n \in 0..Len(seqs)] == IF n = 0 THEN <<>> ELSE cat[n-1] \o seqs[n]
    IN  cat[Len(seqs)]

\* Devices the dispatch loops have reached, over all requests.
DevicesReached == SumThreads(LAMBDA t : Len(req[t].trace))

\* dispatchNotification invocations the requests made on the backend of app a.
InvocationsOn(a) ==
    SumThreads(LAMBDA t : Cardinality({ k \in 1..Len(req[t].trace) :
                  req[t].trace[k].registered /\ req[t].trace[k].app = a }))

\* Requests that passed validation.
Validated ==
    { t \in Threads : req[t].pc = "loop" \/ req[t].hasRejected \/ req[t].trace # <<>> }

\* The metrics and the backends' call counts are those of the recorded
\* iterations, and the recorded iterations are the devices 1, 2, ... in order.
Accounted ==
    /\ NOTIFS_RECEIVED_COUNTER = Cardinality(Validated)
    /\ NOTIFS_RECEIVED_DEVICE_PUSH_COUNTER = DevicesReached
    /\ \A a \in AppIds : /\ dispatchCalls[a] = InvocationsOn(a)
                         /\ NOTIFS_BY_PUSHKIN[a] = InvocationsOn(a)
    /\ \A t \in Threads : \A k \in 1..Len(req[t].trace) :
          /\ req[t].trace[k].idx = k
          /\ k <= Len(req[t].body.devs)
          /\ req[t].trace[k].app = req[t].body.devs[k].app_id

(***************************************************************************)
(* C1: when dispatchNotification raises for the device at position i, the  *)
(* request ends with status 500 and no rejected list; no device after i is *)
(* processed (device i is the last recorded iteration, so no later lookup, *)
(* counter increment or invocation exists), and the invocations made for   *)
(* the devices before i stay counted on their backends.                    *)
(***************************************************************************)
C1_RaiseAborts ==
    /\ Accounted
    /\ \A t \in Threads : \A i \in 1..Len(req[t].trace) :
          req[t].trace[i].res.kind = "raise" =>
             /\ req[t].pc = "done"
             /\ req[t].status = 500
             /\ ~req[t].hasRejected
             /\ i = Len(req[t].trace)
             /\ req[t].idx = i

\* A two-device request whose first device's backend raised while the second
\* device's app id is registered too: the second device was not processed.
C1_Witness ==
    \E t \in Threads :
       /\ req[t].pc = "done"
       /\ Len(req[t].body.devs) = 2
       /\ Len(req[t].trace) = 1
       /\ req[t].trace[1].res.kind = "raise"
       /\ req[t].body.devs[2].app_id \in DOMAIN pushkins
       /\ req[t].status = 500

(***************************************************************************)
(* C2 as stated: in every answered, validated request each device with an  *)
(* unregistered app_id has its pushkey in the response's rejected list,    *)
(* whatever happened to the other devices.                                 *)
(***************************************************************************)
C2_Original ==
    \A t \in Threads :
       (req[t].pc = "done" /\ req[t].status # 400) =>
          \A i \in 1..Len(req[t].body.devs) :
             req[t].body.devs[i].app_id \notin DOMAIN pushkins =>
                /\ req[t].hasRejected
                /\ req[t].body.devs[i].pushkey \in Range(req[t].rejected)

(***************************************************************************)
(* C2 amended: in every request answered 200 each device with an           *)
(* unregistered app_id has its pushkey in the rejected list, whatever the  *)
(* backends of the other devices returned; a request answered 500 carries  *)
(* no rejected list at all.                                                *)
(***************************************************************************)
C2_UnknownRejectedOnSuccess ==
    \A t \in Threads :
       /\ req[t].status = 200 =>
            /\ req[t].hasRejected
            /\ \A i \in 1..Len(req[t].body.devs) :
                  req[t].body.devs[i].app_id \notin DOMAIN pushkins =>
                     req[t].body.devs[i].pushkey \in Range(req[t].rejected)
       /\ req[t].status = 500 => ~req[t].hasRejected

\* A 200 response to a request with an unregistered device and a registered
\* one whose backend rejected a key.
C2_Witness ==
    \E t \in Threads :
       /\ req[t].status = 200
       /\ Len(req[t].trace) = 2
       /\ ~req[t].trace[1].registered
       /\ req[t].trace[2].registered
       /\ req[t].trace[2].res.keys # <<>>
       /\ req[t].body.devs[1].pushkey # req[t].body.devs[2].pushkey

(***************************************************************************)
(* C3: the iteration of a device whose app_id is unregistered appends the  *)
(* device's pushkey, invokes no backend and leaves the request in the loop *)
(* at the next device; and a request whose devices all carry unregistered  *)
(* app_ids ends with status 200 and all its pushkeys, in device order.     *)
(***************************************************************************)
C3_UnknownStep(t) ==
    LET r == req[t]
        d == r.body.devs[r.idx]
    IN  (/\ r.pc = "loop"
         /\ r.idx <= Len(r.body.devs)
         /\ d.app_id \notin DOMAIN pushkins
         /\ req'[t] # r)
        => /\ req'[t].rej = Append(r.rej, d.pushkey)
           /\ req'[t].pc = "loop"
           /\ req'[t].idx = r.idx + 1
           /\ req'[t].status = 0
           /\ dispatchCalls' = dispatchCalls
           /\ NOTIFS_BY_PUSHKIN' = NOTIFS_BY_PUSHKIN

C3_AllUnknown ==
    \A t \in Threads :
       (/\ req[t].pc = "done"
        /\ req[t].status # 400
        /\ \A i \in 1..Len(req[t].body.devs) :
              req[t].body.devs[i].app_id \notin DOMAIN pushkins)
       => /\ req[t].status = 200
          /\ req[t].hasRejected
          /\ req[t].rejected = [i \in 1..Len(req[t].body.devs) |->
                                  req[t].body.devs[i].pushkey]

C3_UnknownNeverAborts ==
    /\ []C3_AllUnknown
    /\ [][\A t \in Threads : C3_UnknownStep(t)]_vars

\* A 200 response to two devices of unregistered app ids, listing both keys.
C3_Witness ==
    \E t \in Threads :
       /\ req[t].status = 200
       /\ Len(req[t].body.devs) = 2
       /\ \A i \in 1..2 : req[t].body.devs[i].app_id \notin DOMAIN pushkins
       /\ req[t].rejected = <<"k2", "k1">>

(***************************************************************************)
(* C4: the rejected list of a successful response holds only pushkeys of   *)
(* the devices of that request, whatever the registered backends did       *)
(* within their contract.                                                  *)
(***************************************************************************)
DevicePushkeys(t) == { req[t].body.devs[i].pushkey : i \in 1..Len(req[t].body.devs) }

Contribution(t, k) ==
    IF req[t].body.devs[k].app_id \in DOMAIN pushkins
      THEN req[t].trace[k].res.keys
      ELSE << req[t].body.devs[k].pushkey >>

C5_RejectedIsConcatenation ==
    \A t \in Threads :
       /\ \A k \in 1..Len(req[t].trace) :
             /\ req[t].trace[k].idx = k
             /\ req[t].trace[k].app = req[t].body.devs[k].app_id
             /\ req[t].trace[k].registered = (req[t].body.devs[k].app_id \in DOMAIN pushkins)
       /\ req[t].status = 200 =>
             /\ Len(req[t].trace) = Len(req[t].body.devs)
             /\ req[t].hasRejected
             /\ req[t].rejected =
                   Concat([k \in 1..Len(req[t].trace) |-> Contribution(t, k)])

\* A 200 response to (registered, unregistered) where the backend rejected
\* the first device's key: both keys, the backend's first.
C5_Witness ==
    \E t \in Threads :
       /\ req[t].status = 200
       /\ Len(req[t].trace) = 2
       /\ req[t].trace[1].registered
       /\ ~req[t].trace[2].registered
       /\ req[t].trace[1].res.keys = << req[t].body.devs[1].pushkey >>
       /\ req[t].body.devs[1].pushkey # req[t].body.devs[2].pushkey
       /\ Len(req[t].rejected) = 2

(***************************************************************************)
(* C6: a request whose notification is invalid (devices missing, no list,  *)
(* empty, or a device at any position without app_id or pushkey) is        *)
(* answered 400 with no device iteration recorded for it (no lookup, no    *)
(* invocation) and no metric counted for it.                               *)
(***************************************************************************)
InvalidNotification(body) ==
    \/ body.shape \in {"nodevices", "notlist"}
    \/ body.shape = "list" /\ body.devs = <<>>
    \/ /\ body.shape = "list"
       /\ \E i \in 1..Len(body.devs) :
             body.devs[i].app_id = Absent \/ body.devs[i].pushkey = Absent

C6_Invalid400BeforeDispatch ==
    /\ Accounted
    /\ \A t \in Threads :
          InvalidNotification(req[t].body) =>
             /\ req[t].pc = "done"
             /\ req[t].status = 400
             /\ ~req[t].hasRejected
             /\ req[t].trace = <<>>
             /\ t \notin Validated

\* A 400 answer to a request whose first device is valid and registered and
\* whose second device lacks its pushkey.
C6_Witness ==
    \E t \in Threads :
       /\ req[t].status = 400
       /\ Len(req[t].body.devs) = 2
       /\ req[t].body.devs[1].app_id \in DOMAIN pushkins
       /\ req[t].body.devs[1].pushkey # Absent
       /\ req[t].body.devs[2].pushkey = Absent
       /\ NOTIFS_RECEIVED_DEVICE_PUSH_COUNTER = 0
       /\ \A a \in AppIds : dispatchCalls[a] = 0

(***************************************************************************)
(* C7: a notification of N >= 1 devices, all of registered app ids, whose  *)
(* backend invocations all return an empty list, is answered 200 with an   *)
(* empty rejected list.                                                    *)
(***************************************************************************)
C7_AllEmptyGivesEmpty ==
    \A t \in Threads :
       (/\ req[t].pc = "done"
        /\ req[t].status # 400
        /\ \A i \in 1..Len(req[t].body.devs) :
              req[t].body.devs[i].app_id \in DOMAIN pushkins
        /\ \A k \in 1..Len(req[t].trace) :
              req[t].trace[k].registered =>
                 req[t].trace[k].res = [kind |-> "list", keys |-> <<>>])
       => /\ req[t].status = 200
          /\ req[t].hasRejected
          /\ req[t].rejected = <<>>
          /\ Len(req[t].trace) = Len(req[t].body.devs)

\* Two devices of two distinct registered app ids, both invoked, answered
\* 200 with nothing rejected.
C7_Witness ==
    \E t \in Threads :
       /\ req[t].status = 200
       /\ Len(req[t].trace) = 2
       /\ req[t].trace[1].app # req[t].trace[2].app
       /\ \A k \in 1..2 : /\ req[t].trace[k].registered
                          /\ req[t].trace[k].res = [kind |-> "list", keys |-> <<>>]
       /\ req[t].rejected = <<>>

(***************************************************************************)
(* C8: RequestCounter.get never returns the same value to two requests,    *)
(* and the values it hands out are strictly increasing in the order in     *)
(* which the calls took the lock.                                          *)
(***************************************************************************)
\* The threads whose call of get has read _count.
HasRead == { t \in Threads : req[t].pc \notin {"idle", "get_read"} }

C8_SequenceUnique ==
    /\ \A i, j \in 1..Len(handed) : i < j => handed[i] < handed[j]
    /\ \A t, u \in HasRead : t # u => req[t].c # req[u].c
    /\ \A t \in HasRead : req[t].c \in Range(handed)
    /\ \A t \in Threads :
          req[t].pc \notin {"idle", "get_read", "get_write", "get_release"}
             => req[t].request_id = req[t].c

\* Two requests in flight at once, the second thread having taken the lock
\* first.
C8_Witness ==
    /\ req[1].pc = "notify"
    /\ req[2].pc = "notify"
    /\ req[2].request_id = 0
    /\ req[1].request_id = 1
    /\ handed = <<0, 1>>

(***************************************************************************)
(* C9 as stated: when the shutdown sequence has ended, each registered     *)
(* backend's shutdown has been invoked exactly once and no failure of a    *)
(* backend's shutdown has propagated out of the sequence.                  *)
(***************************************************************************)
C9_Original ==
    phase \in {"stopped", AfterShutdownFailure} =>
       /\ \A p \in DOMAIN pushkins : shutdownCalls[p] = 1
       /\ phase = "stopped"

(***************************************************************************)
(* C10: startup never reaches the serving state partially configured.  If  *)
(* make_pushkin failed for a configured backend the process is in its      *)
(* fatal state; if the configuration registered no backend it is fatal as  *)
(* soon as setup checks; and until setup has completed, which it does only *)
(* with every configured backend registered and at least one of them, no   *)
(* request has been taken and no backend has been dispatched to.           *)
(***************************************************************************)
NoRequestActivity ==
    /\ \A t \in Threads : req[t].pc = "idle" /\ req[t].trace = <<>>
    /\ count = 0
    /\ handed = <<>>
    /\ NOTIFS_RECEIVED_COUNTER = 0
    /\ NOTIFS_RECEIVED_DEVICE_PUSH_COUNTER = 0
    /\ \A a \in AppIds : dispatchCalls[a] = 0 /\ NOTIFS_BY_PUSHKIN[a] = 0

C10_NoPartialStartup ==
    /\ configured # DOMAIN pushkins => phase = "fatal"
    /\ (cfgItems = <<>> /\ DOMAIN pushkins = {}) => phase \in {"loading", "fatal"}
    /\ phase \in {"loading", "setup", "fatal"} => NoRequestActivity
    /\ phase \notin {"loading", "setup", "fatal"} =>
          /\ cfgItems = <<>>
          /\ DOMAIN pushkins # {}
          /\ configured = DOMAIN pushkins
          /\ \A p \in DOMAIN pushkins : setupCalls[p] = 1

\* Startup failed fatally with one backend registered and another one whose
\* kind did not resolve.
C10_Witness ==
    /\ phase = "fatal"
    /\ DOMAIN pushkins # {}
    /\ configured # DOMAIN pushkins
    /\ NoRequestActivity

(***************************************************************************)
(* C11: during startup no backend's setup is invoked until every           *)
(* configured backend has been constructed and registered, and once        *)
(* startup has completed every registered backend's setup has been invoked *)
(* exactly once.                                                           *)
(***************************************************************************)
StartupCompleted == phase \in {"serving", "shutdown", "stopped", AfterShutdownFailure}

C11_SetupAfterConstruction ==
    /\ \A a \in AppIds :
          setupCalls[a] > 0 =>
             /\ cfgItems = <<>>
             /\ configured = DOMAIN pushkins
             /\ a \in DOMAIN pushkins
             /\ phase # "loading"
             /\ setupCalls[a] = 1
    /\ StartupCompleted =>
          \A a \in AppIds :
             setupCalls[a] = IF a \in DOMAIN pushkins THEN 1 ELSE 0

\* Startup completed with two backends, each set up once.
C11_Witness ==
    /\ phase = "serving"
    /\ DOMAIN pushkins = {"a", "b"}
    /\ \A a \in DOMAIN pushkins : setupCalls[a] = 1

(***************************************************************************)
(* C12: once startup has completed, the mapping from application           *)
(* identifier to backend instance never changes: no step of a notify       *)
(* request, whatever its outcome, and no step of shutdown adds, removes or *)
(* replaces an entry of pushkins.                                          *)
(***************************************************************************)
C12_RegistryImmutable ==
    [][StartupCompleted => pushkins' = pushkins]_vars

\* The process has stopped after a request answered 200 and one answered
\* 500, with both backends still registered and shut down.
C12_Witness ==
    /\ phase = "stopped"
    /\ DOMAIN pushkins = {"a", "b"}
    /\ \A p \in DOMAIN pushkins : shutdownCalls[p] = 1
    /\ req[1].status = 200
    /\ req[2].status = 500

(***************************************************************************)
(* C13: concurrently handled requests share no dispatch state.  Under any  *)
(* interleaving, the rejections a request has collected, and its outcome   *)
(* (its rejected list, or its 400 or 500), are those of running it alone   *)
(* against the same registry and the same backend responses; so its list   *)
(* holds no rejection found while processing another request.              *)
(***************************************************************************)
\* notify's loop run alone over the first n devices of devs, the backend of
\* the i-th device answering resp[i].
AloneRun(devs, resp, n) ==
    LET run[i \in 0..n] ==
          IF i = 0 THEN [rej |-> <<>>, failed |-> FALSE]
          ELSE LET prev == run[i-1]
               IN  IF prev.failed THEN prev
                   ELSE IF devs[i].app_id \notin DOMAIN pushkins
                     THEN [prev EXCEPT !.rej = Append(@, devs[i].pushkey)]
                   ELSE IF resp[i].kind \in {"raise", "none"}
                     THEN [prev EXCEPT !.failed = TRUE]
                   ELSE [prev EXCEPT !.rej = @ \o resp[i].keys]
    IN  run[n]

Responses(t) == [k \in 1..Len(req[t].trace) |-> req[t].trace[k].res]

C13_RequestsIndependent ==
    \A t \in Threads :
       LET r == req[t]
           alone == AloneRun(r.body.devs, Responses(t), Len(r.trace))
       IN  /\ r.pc = "loop" => ~alone.failed /\ r.rej = alone.rej
           /\ (r.pc = "done" /\ r.body.devs # <<>>) =>
                 /\ r.status = IF alone.failed THEN 500 ELSE 200
                 /\ r.hasRejected = ~alone.failed
                 /\ ~alone.failed => /\ r.rejected = alone.rej
                                     /\ Len(r.trace) = Len(r.body.devs)
           /\ (r.pc = "done" /\ r.body.devs = <<>>) =>
                 r.status = 400 /\ ~r.hasRejected

\* Two requests in their loops at once, each past its first device, one
\* with a rejection collected and the other with none.
C13_Witness ==
    /\ req[1].pc = "loop"
    /\ req[2].pc = "loop"
    /\ req[1].idx = 2
    /\ req[2].idx = 2
    /\ req[1].rej # <<>>
    /\ req[2].rej = <<>>

(***************************************************************************)
(* C14: every request consumes exactly one value of the request-sequence   *)
(* counter, whatever its outcome.  The counter is never read without being *)
(* incremented and never decreases: it equals its initial value, 0, plus   *)
(* the number of requests whose increment has been written, and every      *)
(* value read is either written back incremented or about to be.           *)
(***************************************************************************)
\* The requests whose call of get has stored its increment.
HasWritten == { t \in Threads : req[t].pc \notin {"idle", "get_read", "get_write"} }

C14_CountInvariant ==
    /\ count = Cardinality(HasWritten)
    /\ Len(handed) = count + Cardinality({ t \in Threads : req[t].pc = "get_write" })
    /\ \A t \in Threads : req[t].pc = "done" => t \in HasWritten

C14_OneValuePerRequest ==
    /\ []C14_CountInvariant
    /\ [][count' >= count]_vars

\* Both requests are answered, one with 400 and one with 500, and the
\* counter stands at 2.
C14_Witness ==
    /\ req[1].status = 400
    /\ req[2].status = 500
    /\ count = 2

(***************************************************************************)
(* C15: within a request the engine calls a backend's dispatchNotification *)
(* exactly once for every processed device whose app_id is registered,     *)
(* each time with the full notification, and never retries.  The calls     *)
(* made on a backend are as many as the devices of that backend among the  *)
(* devices the loops have processed, a failed call is the last thing its   *)
(* request does, and every call was given all the devices of its request.  *)
(***************************************************************************)
\* The number of devices the loop of request t has processed: those before
\* the loop position, and the device at it when the request was aborted there.
ProcessedDevices(t) ==
    IF req[t].pc = "loop" THEN req[t].idx - 1
    ELSE IF req[t].hasRejected THEN Len(req[t].body.devs)
    ELSE IF req[t].trace # <<>> THEN req[t].idx
    ELSE 0

\* The processed devices of the backend of app a, over all requests.
ProcessedFor(a) ==
    SumThreads(LAMBDA t : Cardinality({ k \in 1..ProcessedDevices(t) :
                  req[t].body.devs[k].app_id = a /\ a \in DOMAIN pushkins }))

C15_OneCallPerDevice ==
    /\ \A a \in AppIds : dispatchCalls[a] = ProcessedFor(a)
    /\ \A t \in Threads :
          /\ Len(req[t].trace) = ProcessedDevices(t)
          /\ \A k \in 1..Len(req[t].trace) :
                /\ req[t].trace[k].idx = k
                /\ req[t].trace[k].registered =>
                      /\ req[t].trace[k].arg = req[t].body.devs
                      /\ DispatchFails(req[t].trace[k].res) =>
                            /\ k = Len(req[t].trace)
                            /\ req[t].pc = "done"
                            /\ req[t].status = 500

\* A notification of two devices sharing one registered app_id has been
\* answered 200 after two successful calls of that backend.
C15_Witness ==
    \E t \in Threads :
       /\ req[t].status = 200
       /\ Len(req[t].body.devs) = 2
       /\ req[t].body.devs[1].app_id = req[t].body.devs[2].app_id
       /\ req[t].body.devs[1].app_id \in DOMAIN pushkins
       /\ dispatchCalls[req[t].body.devs[1].app_id] = 2

RoutedToBase(t, k) ==
    /\ k \in 1..ProcessedDevices(t)
    /\ req[t].body.devs[k].app_id \in DOMAIN pushkins
    /\ pushkins[req[t].body.devs[k].app_id].kind = "base"

C18_BaseBackendFails ==
    \A t \in Threads : \A k \in 1..MaxDevices :
       RoutedToBase(t, k) =>
          /\ req[t].pc = "done"
          /\ req[t].status = 500
          /\ ~req[t].hasRejected
          /\ k = ProcessedDevices(t)
          /\ req[t].trace[k].res.kind = "none"

\* A request whose second device goes to a base backend, after a device the
\* first backend accepted, has been answered 500.
C18_Witness ==
    \E t \in Threads :
       /\ RoutedToBase(t, 2)
       /\ req[t].trace[1].res = [kind |-> "list", keys |-> <<>>]
       /\ req[t].status = 500
       /\ dispatchCalls[req[t].body.devs[2].app_id] = 1

=============================================================================
